---- MODULE Spec2Model ----
(***************************************************************************)
(* FGO event calculator (src/app.js): the validation schema, the rate      *)
(* model, the greedy optimiser Calculator.calcOptimalRuns and the          *)
(* application state driven by App.init, the input listeners and the       *)
(* Calculate button.                                                       *)
(*                                                                         *)
(* Numbers.  Every JavaScript number of the program is carried as an       *)
(* integer count of hundredths (fixed point, two decimals): 45.00 is 4500, *)
(* EPSILON = 0.01 is 1.  A multiplier fraction (primaryMultiplier / 100)   *)
(* is carried as a count of ten-thousandths, which is the same integer as  *)
(* the stored multiplier in hundredths.  Arithmetic is exact: the binary   *)
(* rounding error of IEEE doubles is not part of this model.               *)
(***************************************************************************)
EXTENDS Integers, Sequences, FiniteSets, TLC

(***************************************************************************)
(* CONSTANTS (src/app.js 17-49)                                            *)
(***************************************************************************)
TIERS == <<"bronze", "silver", "gold">>

TIER_FIELDS == <<"Need", "Have", "Bonus">>

MAX_ITERATIONS == 10000

\* 0.01 in hundredths
EPSILON == 1

QUEST_DROPS ==
  [bronze |-> [primary |-> "bronze", secondary |-> "silver"],
   silver |-> [primary |-> "silver", secondary |-> "gold"],
   gold   |-> [primary |-> "gold",   secondary |-> "bronze"]]

TierSet == {TIERS[i] : i \in 1..Len(TIERS)}

FieldSet == {TIER_FIELDS[i] : i \in 1..Len(TIER_FIELDS)}

SettingKeys == {"baseDrop", "primaryMultiplier", "secondaryMultiplier"}

\* n whole units as hundredths
U(n) == n * 100

\* field.toLowerCase() for the three tier fields
toLowerCase == [Need |-> "need", Have |-> "have", Bonus |-> "bonus"]

\* the template string `${tier}${field}`
Key(tier, field) == tier \o field

(***************************************************************************)
(* DOMAIN LAYER - Schema & Validation (src/app.js 54-120)                  *)
(***************************************************************************)
Schema ==
  [tier |-> [Need  |-> [min |-> U(0), max |-> U(999999), default |-> U(0)],
             Have  |-> [min |-> U(0), max |-> U(999999), default |-> U(0)],
             Bonus |-> [min |-> U(0), max |-> U(1000),   default |-> U(0)]],
   baseDrop            |-> [min |-> U(0),   max |-> U(100),    default |-> U(3)],
   primaryMultiplier   |-> [min |-> U(100), max |-> U(100000), default |-> U(1500)],
   secondaryMultiplier |-> [min |-> U(100), max |-> U(100000), default |-> U(225)]]

\* Values that reach parseFloat.  A number of the program is Num(n).  A text
\* (an input's value, a JSON string) is Num(n) when it spells the number n,
\* Prefix(n) when it starts with n and goes on with other characters
\* ("12abc"), Text when no number starts it ("", "abc", also null, true and
\* objects, whose string forms start with no number) and Inf(s) for the text
\* "Infinity" (s = 1) or "-Infinity" (s = -1), which is also what JSON.parse
\* makes of 1e999.  Undefined is a missing property.
Num(n) == [k |-> "num", v |-> n]

Prefix(n) == [k |-> "prefix", v |-> n]

Text == [k |-> "text", v |-> 0]

Inf(s) == [k |-> "inf", v |-> s]

NaN == [k |-> "nan", v |-> 0]

Undefined == [k |-> "undefined", v |-> 0]

\* parseFloat: the leading number of the string form of the value, else NaN
parseFloat(value) ==
  CASE value.k \in {"num", "prefix"} -> Num(value.v)
    [] value.k = "inf" -> Inf(value.v)
    [] OTHER -> NaN

isNaN(num) == num.k = "nan"

Min(a, b) == IF a <= b THEN a ELSE b

Max(a, b) == IF a >= b THEN a ELSE b

clampNumberLowerOnly(num, min, max) ==
  IF num.k = "inf"
  THEN (IF num.v > 0 THEN max ELSE min)
  ELSE Max(min, num.v)

\* Math.min(max, Math.max(min, num)) for a num that is not NaN
clampNumber(num, min, max) ==
  IF num.k = "inf"
  THEN (IF num.v > 0 THEN max ELSE min)
  ELSE Min(max, Max(min, num.v))

clamp(value, min, max) ==
  LET num == parseFloat(value)
  IN  IF isNaN(num) THEN min ELSE clampNumber(num, min, max)

validate(value, schema) == clamp(value, schema.min, schema.max)

(***************************************************************************)
(* DOMAIN LAYER - Calculator (src/app.js 125-172)                          *)
(***************************************************************************)
\* Math.round of n / d for an even d > 0: floor(n / d + 0.5)
MathRound(n, d) == (n + d \div 2) \div d

calcDropRateNoBonus(base, bonus, multiplier) ==
  MathRound(base * multiplier, 10000)

\* base, bonus in hundredths, multiplier in ten-thousandths; the result is
\* Math.round((base + bonus) * multiplier * 100) / 100 in hundredths
calcDropRate(base, bonus, multiplier) ==
  MathRound((base + bonus) * multiplier, 10000)

calcDeficitsUnfloored(needs, haves) ==
  [tier \in TierSet |-> needs[tier] - haves[tier]]

calcDeficits(needs, haves) ==
  [tier \in TierSet |-> Max(0, needs[tier] - haves[tier])]

higherStrict(rem, a, b) == IF rem[a] > rem[b] THEN a ELSE b

\* the reducer (a, b) => remaining[a] >= remaining[b] ? a : b
higher(rem, a, b) == IF rem[a] >= rem[b] THEN a ELSE b

RECURSIVE reduceFrom(_, _, _)
reduceFrom(rem, a, i) ==
  IF i > Len(TIERS) THEN a
  ELSE reduceFrom(rem, higher(rem, a, TIERS[i]), i + 1)

\* TIERS.reduce(...) without an initial value: starts from TIERS[0]
findMaxTier(rem) == reduceFrom(rem, TIERS[1], 2)

countRunTwice(r, target) == [r EXCEPT ![target] = @ + 2]

\* runs[maxTier]++
countRun(r, target) == [r EXCEPT ![target] = @ + 1]

rateExhaustedStrict(totalRate) == totalRate < 0

\* the test `totalRate <= 0` of calcOptimalRuns
rateExhausted(totalRate) == totalRate <= 0

loopConditionEvery(rem, iters) ==
  /\ \A t \in TierSet : rem[t] > EPSILON
  /\ iters < MAX_ITERATIONS

loopConditionOneMore(rem, iters) ==
  /\ \E t \in TierSet : rem[t] > EPSILON
  /\ iters <= MAX_ITERATIONS

loopConditionNoTolerance(rem, iters) ==
  /\ \E t \in TierSet : rem[t] > 0
  /\ iters < MAX_ITERATIONS

\* the while condition of calcOptimalRuns
loopCondition(rem, iters) ==
  /\ \E t \in TierSet : rem[t] > EPSILON
  /\ iters < MAX_ITERATIONS

(***************************************************************************)
(* APPLICATION LAYER - State Manager (src/app.js 177-212)                  *)
(***************************************************************************)
createInitial ==
  [tiers |-> [tier \in TierSet |-> [need |-> U(0), have |-> U(0), bonus |-> U(0)]],
   baseDrop |-> Schema.baseDrop.default,
   primaryMultiplier |-> Schema.primaryMultiplier.default,
   secondaryMultiplier |-> Schema.secondaryMultiplier.default,
   results |-> "null"]

updateTier(st, tier, field, value) ==
  [st EXCEPT !.tiers[tier][field] = value]

updateSetting(st, key, value) == [st EXCEPT ![key] = value]

(***************************************************************************)
(* APPLICATION LAYER - Persistence (src/app.js 217-279)                    *)
(***************************************************************************)
TierKeys == {Key(t, f) : t \in TierSet, f \in FieldSet}

allowedKeys == TierKeys \cup SettingKeys

\* What localStorage holds under STORAGE_KEY:
\*   [kind |-> "none"]     nothing stored (getItem gives null)
\*   [kind |-> "invalid"]  a text JSON.parse throws on
\*   [kind |-> "other"]    JSON that is no plain object (null, number, array)
\*   [kind |-> "object", data |-> d, extra |-> e]  a JSON object: d gives the
\*       value of each allowed key (Undefined when the key is missing), e
\*       is the set of its other keys
NoItem == [kind |-> "none", data |-> [key \in allowedKeys |-> Undefined], extra |-> {}]

InvalidItem == [kind |-> "invalid", data |-> [key \in allowedKeys |-> Undefined], extra |-> {}]

OtherItem == [kind |-> "other", data |-> [key \in allowedKeys |-> Undefined], extra |-> {}]

ObjectItem(d, e) == [kind |-> "object", data |-> d, extra |-> e]

\* the tier and the field a key `${tier}${field}` was built from
tierOf == [key \in TierKeys |-> CHOOSE t \in TierSet : \E f \in FieldSet : Key(t, f) = key]

fieldOf == [key \in TierKeys |-> CHOOSE f \in FieldSet : Key(tierOf[key], f) = key]

\* the record Persistence.save builds and stringifies
saveDataTiersOnly(st) ==
  [key \in allowedKeys |->
     IF key \in SettingKeys THEN Undefined
     ELSE Num(st.tiers[tierOf[key]][toLowerCase[fieldOf[key]]])]

\* Persistence.save, const data (220-229): the number of every field under
\* its key
saveData(st) ==
  [key \in allowedKeys |->
     IF key \in SettingKeys THEN Num(st[key])
     ELSE Num(st.tiers[tierOf[key]][toLowerCase[fieldOf[key]]])]

save(st) == ObjectItem(saveData(st), {})

\* Validator.validateStorageData on a JSON object: the sanitized record,
\* Undefined standing for a key that was not copied
validateStorageData(item) ==
  [key \in allowedKeys |->
     IF item.data[key].k # "undefined"
     THEN LET num == parseFloat(item.data[key])
          IN  IF ~isNaN(num) THEN num ELSE Undefined
     ELSE Undefined]

\* Persistence.load after validateStorageData (247-273): the initial state
\* with every sanitized key validated into it
restoreState(sanitized) ==
  LET has(key)  == sanitized[key].k # "undefined"
      initial   == createInitial
  IN  [tiers |-> [tier \in TierSet |->
         [need  |-> IF has(Key(tier, "Need"))
                    THEN validate(sanitized[Key(tier, "Need")], Schema.tier.Need)
                    ELSE initial.tiers[tier].need,
          have  |-> IF has(Key(tier, "Have"))
                    THEN validate(sanitized[Key(tier, "Have")], Schema.tier.Have)
                    ELSE initial.tiers[tier].have,
          bonus |-> IF has(Key(tier, "Bonus"))
                    THEN validate(sanitized[Key(tier, "Bonus")], Schema.tier.Bonus)
                    ELSE initial.tiers[tier].bonus]],
       baseDrop |-> IF has("baseDrop")
                    THEN validate(sanitized["baseDrop"], Schema.baseDrop)
                    ELSE initial.baseDrop,
       primaryMultiplier |-> IF has("primaryMultiplier")
                    THEN validate(sanitized["primaryMultiplier"], Schema.primaryMultiplier)
                    ELSE initial.primaryMultiplier,
       secondaryMultiplier |-> IF has("secondaryMultiplier")
                    THEN validate(sanitized["secondaryMultiplier"], Schema.secondaryMultiplier)
                    ELSE initial.secondaryMultiplier,
       results |-> "null"]

\* Persistence.load: the loaded state, or "null"
load(item) ==
  IF item.kind # "object" THEN "null"
  ELSE restoreState(validateStorageData(item))

\* ViewManager.syncInputsFromState: the value of each of the twelve inputs
syncInputsFromState(st) == saveData(st)

(***************************************************************************)
(* State                                                                   *)
(***************************************************************************)
VARIABLES
  state,       \* App.state
  elements,    \* the value of each input: UIBuilder.elements and the three settings inputs
  storage,     \* localStorage under STORAGE_KEY
  pc,          \* "idle", "loop" (inside calcOptimalRuns), "done"
  deficits,    \* const deficits of App.calculate
  dropRates,   \* const dropRates of App.calculate
  remaining,   \* locals of calcOptimalRuns
  runs,
  iterations,
  maxTier,     \* the target of the latest iteration, "none" before the first
  result,      \* what calcOptimalRuns returned
  view,        \* "blank", "alert" (alert(result.error)), "results" (showResults)
  events,      \* number of user edits so far
  saveOk,      \* what the latest Persistence.save returned, FALSE before the first
  sanitized    \* const sanitized of Persistence.load while LoadSpec is inside it

vars == <<state, elements, storage, pc, deficits, dropRates, remaining, runs,
          iterations, maxTier, result, view, events, saveOk, sanitized>>

appVars == <<state, elements, storage, events, saveOk, sanitized>>

runVars == <<pc, deficits, dropRates, remaining, runs, iterations, maxTier,
             result, view>>

zeroRuns == [tier \in TierSet |-> 0]

NoResult == [runs |-> zeroRuns, error |-> "", warning |-> ""]

\* a sanitized record without keys
noneCopied == [key \in allowedKeys |-> Undefined]

noRates ==
  [questTier \in TierSet |->
     [primary   |-> [tier |-> QUEST_DROPS[questTier].primary,   rate |-> 0],
      secondary |-> [tier |-> QUEST_DROPS[questTier].secondary, rate |-> 0]]]

(***************************************************************************)
(* APPLICATION - App Controller (src/app.js 614-716)                       *)
(***************************************************************************)
\* App.init with item in localStorage: state, inputs synced from it
init(item) ==
  /\ state = (IF item.kind = "object" THEN load(item) ELSE createInitial)
  /\ elements = syncInputsFromState(state)
  /\ storage = item
  /\ pc = "idle"
  /\ deficits = zeroRuns
  /\ dropRates = noRates
  /\ remaining = zeroRuns
  /\ runs = zeroRuns
  /\ iterations = 0
  /\ maxTier = "none"
  /\ result = NoResult
  /\ view = "blank"
  /\ events = 0
  /\ saveOk = FALSE
  /\ sanitized = noneCopied

\* App.calculate, "Read all inputs" (645-658)
readInputs(st, els) ==
  [st EXCEPT !.tiers =
     [tier \in TierSet |->
        [need  |-> validate(els[Key(tier, "Need")],  Schema.tier.Need),
         have  |-> validate(els[Key(tier, "Have")],  Schema.tier.Have),
         bonus |-> validate(els[Key(tier, "Bonus")], Schema.tier.Bonus)]]]

\* App.calculate, "Build drop rates" (673-699)
buildDropRates(st) ==
  LET base == st.baseDrop
      primaryMult == st.primaryMultiplier
      secondaryMult == st.secondaryMultiplier
  IN  [questTier \in TierSet |->
         LET drops == QUEST_DROPS[questTier]
         IN  [primary   |-> [tier |-> drops.primary,
                             rate |-> calcDropRate(base, st.tiers[drops.primary].bonus,
                                                   primaryMult)],
              secondary |-> [tier |-> drops.secondary,
                             rate |-> calcDropRate(base, st.tiers[drops.secondary].bonus,
                                                   secondaryMult)]]]

\* App.calculate, "Read all inputs" and "Save" (643-661).  saved: whether
\* localStorage.setItem went through (it throws when storage is full or
\* disabled, and Persistence.save then returns false).
calculateInputs(saved) ==
  /\ state' = readInputs(state, elements)
  /\ storage' = (IF saved THEN save(readInputs(state, elements)) ELSE storage)
  /\ saveOk' = saved
  /\ UNCHANGED <<elements, events, sanitized>>

\* App.calculate up to the call of calcOptimalRuns, and the first lines of
\* calcOptimalRuns (643-702, 139-141)
calculate(saved) ==
  /\ pc = "idle"
  /\ calculateInputs(saved)
  /\ LET st == readInputs(state, elements)
         needs == [tier \in TierSet |-> st.tiers[tier].need]
         haves == [tier \in TierSet |-> st.tiers[tier].have]
     IN  /\ deficits' = calcDeficits(needs, haves)
         /\ dropRates' = buildDropRates(st)
         /\ remaining' = calcDeficits(needs, haves)
  /\ runs' = zeroRuns
  /\ iterations' = 0
  /\ maxTier' = "none"
  /\ result' = NoResult
  /\ pc' = "loop"
  /\ view' = view

\* One pass through the while body of calcOptimalRuns (143-164); when the
\* total rate is not positive the function returns from inside the loop and
\* App.calculate alerts (704-707).
iterate ==
  /\ pc = "loop"
  /\ loopCondition(remaining, iterations)
  /\ iterations' = iterations + 1
  /\ LET target == findMaxTier(remaining)
         quest == dropRates[target]
         totalRate == quest.primary.rate + quest.secondary.rate
     IN  /\ maxTier' = target
         /\ IF rateExhausted(totalRate)
            THEN /\ result' = [runs |-> runs, error |-> "Drop rates too low", warning |-> ""]
                 /\ view' = "alert"
                 /\ pc' = "done"
                 /\ UNCHANGED <<remaining, runs>>
            ELSE /\ LET r1 == [remaining EXCEPT ![quest.primary.tier] = @ - quest.primary.rate]
                    IN  remaining' = [r1 EXCEPT ![quest.secondary.tier] = @ - quest.secondary.rate]
                 /\ runs' = countRun(runs, target)
                 /\ UNCHANGED <<result, view, pc>>
  /\ UNCHANGED <<appVars, deficits, dropRates>>

\* The loop is left (166-170) and App.calculate shows the results (709-714)
return ==
  /\ pc = "loop"
  /\ ~loopCondition(remaining, iterations)
  /\ result' = (IF iterations >= MAX_ITERATIONS
                THEN [runs |-> runs, error |-> "", warning |-> "Calculation limit reached"]
                ELSE [runs |-> runs, error |-> "", warning |-> ""])
  /\ view' = "results"
  /\ pc' = "done"
  /\ UNCHANGED <<appVars, deficits, dropRates, remaining, runs, iterations, maxTier>>

(***************************************************************************)
(* PRESENTATION LAYER - Event Handler (src/app.js 574-608) and the user    *)
(***************************************************************************)
\* most user edits followed in AppSpec
MaxEvents == 2

\* The user types text into the input of a tier field.  A Bonus input has
\* an "input" listener (580-589); Need and Have inputs have none and are
\* read by the next Calculate click.
typeTierField(tier, field, text) ==
  /\ pc = "idle"
  /\ events < MaxEvents
  /\ events' = events + 1
  /\ elements' = [elements EXCEPT ![Key(tier, field)] = text]
  /\ state' = (IF field = "Bonus"
               THEN updateTier(state, tier, "bonus", validate(text, Schema.tier.Bonus))
               ELSE state)
  /\ UNCHANGED <<storage, saveOk, sanitized, runVars>>

\* The user types text into baseDrop or a multiplier input (592-601)
typeSetting(key, text) ==
  /\ pc = "idle"
  /\ events < MaxEvents
  /\ events' = events + 1
  /\ elements' = [elements EXCEPT ![key] = text]
  /\ state' = updateSetting(state, key, validate(text, Schema[key]))
  /\ UNCHANGED <<storage, saveOk, sanitized, runVars>>

\* A Calculate click as far as App.state, the inputs and localStorage go
\* (643-661).  The rest of App.calculate (663-714) computes from the state
\* and writes only the results view; Spec follows it step by step.
clickCalculate(saved) ==
  /\ pc = "idle"
  /\ calculateInputs(saved)
  /\ UNCHANGED runVars

\* The page is loaded again: App.init with what localStorage now holds
reload ==
  /\ pc = "idle"
  /\ state' = (IF storage.kind = "object" THEN load(storage) ELSE createInitial)
  /\ elements' = syncInputsFromState(state')
  /\ UNCHANGED <<storage, events, saveOk, sanitized, runVars>>

(***************************************************************************)
(* Spec: App.init from a stored record, then one Calculate click followed  *)
(* step by step through calcOptimalRuns.  The stored records are in-range  *)
(* settings of four kinds.                                                 *)
(***************************************************************************)
\* largest per-tier bonus (whole units) among the stored records
MaxBonus == 1

Bonuses == [TierSet -> {U(b) : b \in 0..MaxBonus}]

Same(v) == [tier \in TierSet |-> v]

Only(t, v) == [tier \in TierSet |-> IF tier = t THEN v ELSE 0]

Config(need, have, bonus, base, pm, sm) ==
  [need |-> need, have |-> have, bonus |-> bonus, baseDrop |-> base,
   primaryMultiplier |-> pm, secondaryMultiplier |-> sm]

\* ordinary rates, deficits of a few runs to a few hundred runs
GeneralConfigs ==
  {Config(need, have, bonus, base, pm, U(225)) :
     need \in [TierSet -> {U(0), U(50), U(100)}],
     have \in {Same(U(0)), Same(U(50))},
     bonus \in Bonuses,
     base \in {U(1), U(3)},
     pm \in {U(101), U(1500)}}

\* baseDrop 0: a quest drops only what the bonuses give
ZeroBaseConfigs ==
  {Config(need, have, bonus, U(0), U(1500), U(225)) :
     need \in {Same(U(0)), Same(U(50)),
               [bronze |-> U(100), silver |-> U(50), gold |-> U(0)]},
     have \in {Same(U(0)), Same(U(50)), Same(U(100))},
     bonus \in Bonuses}

\* one deficit next to MAX_ITERATIONS runs of rate 1.00
CapConfigs ==
  {Config(Only(t, U(n)), Same(U(0)), Same(U(0)), U(1), U(100), U(100)) :
     t \in TierSet,
     n \in {MAX_ITERATIONS - 1, MAX_ITERATIONS, MAX_ITERATIONS + 1}}

\* deficits of 0.01 and 0.02 against rates of 0.01 and 0.02
TinyConfigs ==
  {Config(need, Same(U(0)), Same(U(0)), base, U(100), U(100)) :
     need \in [TierSet -> {0, 1, 2}],
     base \in {1, 2}}

Configs == GeneralConfigs \cup ZeroBaseConfigs \cup CapConfigs \cup TinyConfigs

\* the record Persistence.save stored for the settings c
StoredConfig(c) ==
  ObjectItem(
    [key \in allowedKeys |->
       IF key \in SettingKeys THEN Num(c[key])
       ELSE Num(c[toLowerCase[fieldOf[key]]][tierOf[key]])],
    {})

Init == \E c \in Configs : init(StoredConfig(c))

Next ==
  \/ \E saved \in BOOLEAN : calculate(saved)
  \/ iterate
  \/ return

Spec == Init /\ [][Next]_vars

(***************************************************************************)
(* AppSpec: App.init from whatever localStorage holds, then user edits,    *)
(* Calculate clicks and page reloads.                                      *)
(***************************************************************************)
\* what a stored record may hold under a key
StoredValues ==
  {Undefined, Text, Num(-U(5)), Num(U(1000000)), Prefix(U(50)), Inf(1)}

\* nothing usable, or an object holding the same value under every key
AppItems ==
  {NoItem, InvalidItem, OtherItem}
  \cup {ObjectItem([key \in allowedKeys |-> v], {}) : v \in StoredValues}

\* what the user may type into an input
InputTexts == {Text, Num(U(7)), Num(-U(5)), Num(U(1000000))}

AppInit == \E item \in AppItems : init(item)

AppNext ==
  \/ \E tier \in TierSet, field \in FieldSet, text \in InputTexts :
       typeTierField(tier, field, text)
  \/ \E key \in SettingKeys, text \in InputTexts : typeSetting(key, text)
  \/ \E saved \in BOOLEAN : clickCalculate(saved)
  \/ reload

AppSpec == AppInit /\ [][AppNext]_vars

(***************************************************************************)
(* LoadSpec: opening the page, with Persistence.load taken in two steps,   *)
(* validateStorageData first and the restoring of the state second.  The   *)
(* stored objects hold one raw value under the nine tier keys, another     *)
(* under the three setting keys, and may carry keys the application does   *)
(* not know; the other items are an absent one, one that is not JSON and   *)
(* one that is JSON but not an object.                                     *)
(***************************************************************************)
LoadValues ==
  {Undefined, Text, Num(U(7)), Num(-U(5)), Num(U(1000000)), Prefix(U(50)),
   Inf(1), Inf(-1)}

UnknownKeys == {"version", "goldExtra"}

LoadItems ==
  {NoItem, InvalidItem, OtherItem}
    \cup {ObjectItem([key \in allowedKeys |->
                        IF key \in TierKeys THEN v ELSE w], e) :
            v \in LoadValues, w \in LoadValues, e \in {{}, UnknownKeys}}

\* the page before App.init: App.state is null and no input has been filled
opened(item) ==
  /\ state = "null"
  /\ elements = noneCopied
  /\ storage = item
  /\ pc = "load"
  /\ deficits = zeroRuns
  /\ dropRates = noRates
  /\ remaining = zeroRuns
  /\ runs = zeroRuns
  /\ iterations = 0
  /\ maxTier = "none"
  /\ result = NoResult
  /\ view = "blank"
  /\ events = 0
  /\ saveOk = FALSE
  /\ sanitized = noneCopied

\* Persistence.load returns null: no item, a JSON.parse error, or
\* validateStorageData refusing what is not an object; App.init falls back
\* to the initial state
loadNull ==
  /\ pc = "load"
  /\ storage.kind # "object"
  /\ state' = createInitial
  /\ elements' = syncInputsFromState(state')
  /\ pc' = "idle"
  /\ UNCHANGED <<storage, events, saveOk, sanitized, deficits, dropRates,
                 remaining, runs, iterations, maxTier, result, view>>

\* Persistence.load up to const sanitized = Validator.validateStorageData(data)
loadSanitize ==
  /\ pc = "load"
  /\ storage.kind = "object"
  /\ sanitized' = validateStorageData(storage)
  /\ pc' = "restore"
  /\ UNCHANGED <<state, elements, storage, events, saveOk, deficits, dropRates,
                 remaining, runs, iterations, maxTier, result, view>>

\* the rest of Persistence.load, and App.init filling the inputs
loadRestore ==
  /\ pc = "restore"
  /\ state' = restoreState(sanitized)
  /\ elements' = syncInputsFromState(state')
  /\ pc' = "idle"
  /\ UNCHANGED <<storage, events, saveOk, sanitized, deficits, dropRates,
                 remaining, runs, iterations, maxTier, result, view>>

LoadInit == \E item \in LoadItems : opened(item)

LoadNext == loadNull \/ loadSanitize \/ loadRestore

LoadSpec == LoadInit /\ [][LoadNext]_vars

(***************************************************************************)
(* TripSpec: the user types into Need, Have and settings inputs, clicks    *)
(* Calculate, which is followed step by step to its end, and opens the     *)
(* page again.  The stored records have one bonus for all tiers, so a      *)
(* calculation ends after a few iterations, with runs or with the error.   *)
(***************************************************************************)
TripItems ==
  {NoItem,
   StoredConfig(Config(Same(U(5)), Same(U(1)), Same(U(1)), U(1), U(200), U(100))),
   StoredConfig(Config([bronze |-> U(2), silver |-> U(0), gold |-> U(1)],
                       Same(U(0)), Same(U(0)), U(0), U(1500), U(225)))}

TripTexts == {Text, Num(U(3))}

\* The page is opened again after a calculation has ended: a new document,
\* App.init with what localStorage now holds
reopen ==
  /\ pc = "done"
  /\ state' = (IF storage.kind = "object" THEN load(storage) ELSE createInitial)
  /\ elements' = syncInputsFromState(state')
  /\ pc' = "idle"
  /\ deficits' = zeroRuns
  /\ dropRates' = noRates
  /\ remaining' = zeroRuns
  /\ runs' = zeroRuns
  /\ iterations' = 0
  /\ maxTier' = "none"
  /\ result' = NoResult
  /\ view' = "blank"
  /\ saveOk' = FALSE
  /\ UNCHANGED <<storage, events, sanitized>>

TripInit == \E item \in TripItems : init(item)

TripNext ==
  \/ \E tier \in TierSet, field \in {"Need", "Have"}, text \in TripTexts :
       typeTierField(tier, field, text)
  \/ \E key \in SettingKeys, text \in TripTexts : typeSetting(key, text)
  \/ \E saved \in BOOLEAN : calculate(saved)
  \/ iterate
  \/ return
  \/ reopen

TripSpec == TripInit /\ [][TripNext]_vars


\* the code runs on: both steps of calcOptimalRuns are taken when enabled
FairSpec == Spec /\ WF_vars(iterate) /\ WF_vars(return)

(***************************************************************************)
(* Vocabulary of the properties                                            *)
(***************************************************************************)
\* the tier after T in the cycle bronze -> silver -> gold -> bronze
Succ == [bronze |-> "silver", silver |-> "gold", gold |-> "bronze"]

\* the tier whose quest drops T as its secondary material
Pred == [silver |-> "bronze", gold |-> "silver", bronze |-> "gold"]

Before(t) == {TIERS[i] : i \in {j \in 1..Len(TIERS) : \E k \in (j + 1)..Len(TIERS) : TIERS[k] = t}}

SumRuns(r) == r["bronze"] + r["silver"] + r["gold"]

Ceil(a, b) == (a + b - 1) \div b

primaryRate(q) == dropRates[q].primary.rate

secondaryRate(q) == dropRates[q].secondary.rate

Returned == pc = "done"

Plain == result.error = "" /\ result.warning = ""

\* this step is one pass through the loop body
IterationStep == pc = "loop" /\ iterations' = iterations + 1

(***************************************************************************)
(* C1: when calcOptimalRuns returns with neither error nor warning, every  *)
(* deficit is closed to within the tolerance by the returned runs:         *)
(* deficit[T] - runs[T] * primaryRate(T) - runs[pred T] * secondaryRate(   *)
(* pred T) <= 0.01 for every tier T.                                       *)
(***************************************************************************)
C1_DeficitsClosed ==
  (Returned /\ Plain) =>
    \A t \in TierSet :
      deficits[t] - result.runs[t] * primaryRate(t)
                  - result.runs[Pred[t]] * secondaryRate(Pred[t]) <= EPSILON

\* a plain return after runs of two different quests, one tier closed only
\* with the help of the other quest's secondary drops
C1_Witness ==
  /\ Returned /\ Plain
  /\ \E t \in TierSet :
       /\ result.runs[t] > 0 /\ result.runs[Pred[t]] > 0
       /\ deficits[t] - result.runs[t] * primaryRate(t) > EPSILON

(***************************************************************************)
(* C2: calcOptimalRuns always returns, and never runs more than 10000      *)
(* loop iterations, whatever the deficits and rates.                       *)
(***************************************************************************)
C2_Terminates ==
  /\ [](iterations <= MAX_ITERATIONS)
  /\ (pc = "loop") ~> (pc = "done")

\* a return at the cap with a deficit still open
C2_Witness ==
  /\ Returned /\ iterations = MAX_ITERATIONS
  /\ \E t \in TierSet : remaining[t] > EPSILON

(***************************************************************************)
(* C3 (as claimed): the warning is reported exactly when the loop exits    *)
(* with iterations = 10000 and some remaining deficit above 0.01; when     *)
(* every remaining deficit is <= 0.01 at loop exit and no error occurred   *)
(* the result has no warning.                                              *)
(***************************************************************************)
C3_WarningOnlyWhenUnsatisfied ==
  (Returned /\ result.error = "") =>
    ((result.warning # "") <=>
       (iterations = MAX_ITERATIONS /\ \E t \in TierSet : remaining[t] > EPSILON))

(***************************************************************************)
(* C4: an error is returned exactly by an iteration whose target quest has *)
(* primary.rate + secondary.rate <= 0; that iteration changes no remaining *)
(* deficit and no run count and returns at once, so the runs returned are  *)
(* those of the earlier iterations.                                        *)
(***************************************************************************)
C4_StepOk ==
  LET exhausted == /\ IterationStep
                   /\ primaryRate(maxTier') + secondaryRate(maxTier') <= 0
  IN  /\ (result'.error # "") <=> (exhausted \/ result.error # "")
      /\ exhausted =>
           /\ pc' = "done"
           /\ remaining' = remaining
           /\ runs' = runs
           /\ result'.runs = runs
           /\ SumRuns(runs) = iterations

\* C4: every step keeps the error tied to a non-positive total rate of the
\* target, and the erroring iteration leaves remaining and runs as they were
C4_ErrorIffRateExhausted == [][C4_StepOk]_vars

\* an error returned after earlier successful iterations
C4_Witness ==
  /\ Returned /\ result.error # ""
  /\ SumRuns(result.runs) > 0
  /\ remaining # deficits

(***************************************************************************)
(* C5: the target of every iteration has a remaining deficit >= that of    *)
(* every tier and > that of every tier before it in the order bronze,      *)
(* silver, gold; it is the tier whose run count the iteration increments.  *)
(***************************************************************************)
C5_StepOk ==
  IterationStep =>
    /\ maxTier' \in TierSet
    /\ \A u \in TierSet : remaining[maxTier'] >= remaining[u]
    /\ \A u \in Before(maxTier') : remaining[maxTier'] > remaining[u]
    /\ \A u \in TierSet :
         runs'[u] = runs[u] + (IF u = maxTier' /\ result'.error = "" THEN 1 ELSE 0)

\* C5: every iteration targets the earliest tier of maximal remaining deficit
C5_TargetIsEarliestMaximum == [][C5_StepOk]_vars

\* the first iteration met a tie for the maximum and took the earlier tier
C5_Witness ==
  /\ iterations = 1
  /\ \E u \in TierSet :
       /\ maxTier \in Before(u)
       /\ deficits[maxTier] = deficits[u]
       /\ runs[maxTier] = 1

(***************************************************************************)
(* C6: inputs with exactly one tier T of positive deficit d, primary rate  *)
(* r > 0 of quest T and ceil(d / r) <= 10000.                              *)
(***************************************************************************)
SoleDeficit(t) ==
  /\ deficits[t] > 0
  /\ \A u \in TierSet \ {t} : deficits[u] = 0
  /\ primaryRate(t) > 0
  /\ Ceil(deficits[t], primaryRate(t)) <= MAX_ITERATIONS

OnlyRuns(t, n) == [u \in TierSet |-> IF u = t THEN n ELSE 0]

RunsToTolerance(d, r) == Ceil(Max(d - EPSILON, 0), r)

C7_WarningMeansProgress ==
  (Returned /\ result.warning # "") =>
    \A t \in TierSet : result.runs[t] > 0 => primaryRate(t) > 0

(***************************************************************************)
(* C8: when need <= have for every tier, calcDeficits gives 0 for every    *)
(* tier and calcOptimalRuns runs no iteration and returns 0 runs for all   *)
(* quests without error or warning, whatever the rates.                    *)
(***************************************************************************)
NothingNeeded == \A t \in TierSet : state.tiers[t].need <= state.tiers[t].have

C8_ZeroDeficitShortcut ==
  (pc # "idle" /\ NothingNeeded) =>
    /\ \A t \in TierSet : deficits[t] = 0
    /\ iterations = 0
    /\ runs = zeroRuns
    /\ Returned => (result.runs = zeroRuns /\ Plain)

\* returned with a need below what is held and every rate zero
C8_Witness ==
  /\ Returned /\ NothingNeeded
  /\ \E t \in TierSet : 0 < state.tiers[t].need
  /\ \E t \in TierSet : state.tiers[t].need < state.tiers[t].have
  /\ \A t \in TierSet : primaryRate(t) = 0 /\ secondaryRate(t) = 0

(***************************************************************************)
(* C10: for integer baseDrop, bonuses and multipliers the rate table gives *)
(* quest T the primary tier T at (baseDrop + bonus[T]) * primaryMultiplier *)
(* / 100 and the secondary tier succ(T) at (baseDrop + bonus[succ T]) *    *)
(* secondaryMultiplier / 100, exactly; baseDrop 3, bonuses 0, multipliers  *)
(* 1500 and 225 give 45.00 and 6.75.                                       *)
(***************************************************************************)
IsInteger(h) == h % 100 = 0

IntegerSettings ==
  /\ IsInteger(state.baseDrop)
  /\ IsInteger(state.primaryMultiplier)
  /\ IsInteger(state.secondaryMultiplier)
  /\ \A t \in TierSet : IsInteger(state.tiers[t].bonus)

\* C10: the rate table of integer settings is exact and follows the cycle
C10_RateTable ==
  (pc # "idle" /\ IntegerSettings) =>
    \A t \in TierSet :
      /\ dropRates[t].primary.tier = t
      /\ dropRates[t].secondary.tier = Succ[t]
      /\ 10000 * primaryRate(t) =
           (state.baseDrop + state.tiers[t].bonus) * state.primaryMultiplier
      /\ 10000 * secondaryRate(t) =
           (state.baseDrop + state.tiers[Succ[t]].bonus) * state.secondaryMultiplier
      /\ (/\ state.baseDrop = U(3)
          /\ \A u \in TierSet : state.tiers[u].bonus = 0
          /\ state.primaryMultiplier = U(1500)
          /\ state.secondaryMultiplier = U(225))
         => (primaryRate(t) = 4500 /\ secondaryRate(t) = 675)

\* a table whose six rates differ with the bonuses
C10_Witness ==
  /\ pc # "idle" /\ IntegerSettings
  /\ state.tiers["bronze"].bonus # state.tiers["silver"].bonus
  /\ state.tiers["silver"].bonus # state.tiers["gold"].bonus
  /\ primaryRate("bronze") # primaryRate("silver")
  /\ secondaryRate("bronze") # secondaryRate("silver")
  /\ secondaryRate("bronze") # primaryRate("silver")

(***************************************************************************)
(* C9: in every reachable application state each need and have lies in     *)
(* [0, 999999], each bonus in [0, 1000], baseDrop in [0, 100] and both     *)
(* multipliers in [100, 100000]; a raw value carried by an input event or  *)
(* a Calculate click is clamped to the nearest bound when out of range and *)
(* becomes the minimum when unparseable; nothing is rejected.  (A stored   *)
(* value is clamped likewise; one that does not parse is not copied and    *)
(* the field keeps its default.)                                           *)
(***************************************************************************)
Lo == [key \in allowedKeys |->
         IF key \in {"primaryMultiplier", "secondaryMultiplier"} THEN U(100) ELSE U(0)]

Hi == [key \in allowedKeys |->
         CASE key \in {"primaryMultiplier", "secondaryMultiplier"} -> U(100000)
           [] key = "baseDrop" -> U(100)
           [] OTHER -> IF fieldOf[key] = "Bonus" THEN U(1000) ELSE U(999999)]

Default == [key \in allowedKeys |->
              CASE key = "primaryMultiplier" -> U(1500)
                [] key = "secondaryMultiplier" -> U(225)
                [] key = "baseDrop" -> U(3)
                [] OTHER -> U(0)]

ValueOf(st, key) ==
  IF key \in SettingKeys THEN st[key]
  ELSE st.tiers[tierOf[key]][toLowerCase[fieldOf[key]]]

Parses(raw) == raw.k \in {"num", "prefix", "inf"}

\* the value a raw value must become under key
Clamped(raw, key) ==
  CASE ~Parses(raw) -> Lo[key]
    [] raw.k = "inf" -> IF raw.v > 0 THEN Hi[key] ELSE Lo[key]
    [] OTHER -> IF raw.v < Lo[key] THEN Lo[key]
                ELSE IF raw.v > Hi[key] THEN Hi[key] ELSE raw.v

\* the value a field must have after loading item
Loaded(item, key) ==
  IF item.kind = "object" /\ Parses(item.data[key])
  THEN Clamped(item.data[key], key)
  ELSE Default[key]

\* the inputs with an "input" listener
ListenedKeys == {Key(t, "Bonus") : t \in TierSet} \cup SettingKeys

InRange == \A key \in allowedKeys : Lo[key] <= ValueOf(state, key) /\ ValueOf(state, key) <= Hi[key]

C9_StateOk ==
  /\ InRange
  /\ \A key \in ListenedKeys : ValueOf(state, key) = Clamped(elements[key], key)
  /\ events = 0 => \A key \in allowedKeys : ValueOf(state, key) = Loaded(storage, key)

C9_StepOk ==
  /\ (events' = events /\ elements' = elements) =>
       \A key \in allowedKeys : ValueOf(state', key) = Clamped(elements[key], key)
  /\ (events' = events /\ elements' # elements) =>
       \A key \in allowedKeys : ValueOf(state', key) = Loaded(storage, key)

\* C9: every state is in range and holds the clamped raw values; every
\* Calculate click and every load clamps what it reads
C9_InRangeClamped == [](C9_StateOk) /\ [][C9_StepOk]_vars

\* a click clamped an oversized need, an event turned an unparseable
\* baseDrop into the minimum, and the record was saved
C9_Witness ==
  /\ elements["bronzeNeed"] = Num(U(1000000))
  /\ state.tiers["bronze"].need = U(999999)
  /\ elements["baseDrop"] = Text
  /\ state.baseDrop = U(0)
  /\ storage = save(state)

(***************************************************************************)
(* C11: what validateStorageData keeps                                     *)
(***************************************************************************)
\* the twelve names of the stored record
AllowedNames ==
  {"bronzeNeed", "bronzeHave", "bronzeBonus",
   "silverNeed", "silverHave", "silverBonus",
   "goldNeed", "goldHave", "goldBonus",
   "baseDrop", "primaryMultiplier", "secondaryMultiplier"}

\* the keys of the sanitized record
KeysOf(san) == {key \in DOMAIN san : san[key].k # "undefined"}

\* the keys of a stored object
PresentKeys(item) ==
  {key \in allowedKeys : item.data[key].k # "undefined"} \cup item.extra

\* the raw value parses as a finite number
ParsesFinite(raw) == raw.k \in {"num", "prefix"}

Sanitizing == pc = "restore"

\* C11: once validateStorageData has returned, the sanitized record holds a
\* key only if it is one of the twelve allowed names, is present in the
\* stored object and its value parses as a finite number; the value kept is
\* the parsed number itself, outside its range or not, and no unknown key
\* is kept.
C11_SanitizedFiniteOnly ==
  Sanitizing =>
    /\ \A key \in KeysOf(sanitized) :
         /\ key \in AllowedNames
         /\ key \in PresentKeys(storage)
         /\ ParsesFinite(storage.data[key])
         /\ sanitized[key] = Num(storage.data[key].v)
    /\ \A key \in storage.extra : key \notin KeysOf(sanitized)
    /\ \A key \in allowedKeys :
         ~ParsesFinite(storage.data[key]) => key \notin KeysOf(sanitized)

(***************************************************************************)
(* C12: save and load                                                      *)
(***************************************************************************)
\* need, have and bonus of every tier and the three settings are equal
SameInputs(a, b) == \A key \in allowedKeys : ValueOf(a, key) = ValueOf(b, key)

\* Persistence.save went through in the Calculate click being followed
Saved == pc \in {"loop", "done"} /\ saveOk

\* from the save of App.calculate on, whatever the calculation comes to,
\* localStorage holds every field of the state, and loading it gives the
\* state back
C12_StateOk ==
  Saved =>
    /\ InRange
    /\ storage.kind = "object"
    /\ \A key \in allowedKeys : storage.data[key] = Num(ValueOf(state, key))
    /\ SameInputs(load(storage), state)
    /\ load(storage).results = "null"

\* the page opened after a saved calculation has the state of that
\* calculation
C12_StepOk ==
  (pc = "done" /\ saveOk /\ pc' = "idle") =>
    /\ SameInputs(state', state)
    /\ state'.results = "null"

\* C12: an in-range state saved by Persistence.save and loaded by
\* Persistence.load comes back with the same need, have and bonus of every
\* tier and the same three settings, results null; App.calculate saves
\* before it computes, so the state is stored also when the calculation
\* ends with the error.
C12_SaveLoadRoundTrip == [](C12_StateOk) /\ [][C12_StepOk]_vars

\* a page opened again with typed inputs (need 3, baseDrop 0) whose
\* calculation could only end with "Drop rates too low"
C12_Witness ==
  /\ pc = "idle"
  /\ events > 0
  /\ state.tiers["bronze"].need = U(3)
  /\ state.tiers["bronze"].have = U(0)
  /\ state.baseDrop = U(0)
  /\ \A tier \in TierSet : state.tiers[tier].bonus = U(0)
  /\ storage = save(state)

(***************************************************************************)
(* C13: the run counts count the iterations                                *)
(***************************************************************************)
\* the iterations that did not end with the error
Completed == iterations - (IF result.error # "" THEN 1 ELSE 0)

C13_StateOk ==
  /\ SumRuns(runs) = Completed
  /\ SumRuns(runs) <= MAX_ITERATIONS
  /\ (Returned /\ result.warning # "") => SumRuns(result.runs) = MAX_ITERATIONS

C13_StepOk ==
  /\ pc = "loop" => \A tier \in TierSet : runs'[tier] >= runs[tier]
  /\ IterationStep =>
       IF result'.error # ""
       THEN runs' = runs
       ELSE \E tier \in TierSet : runs' = [runs EXCEPT ![tier] = @ + 1]

\* C13: all through calcOptimalRuns the three run counts add up to the
\* number of iterations completed without the error; such an iteration adds
\* 1 to exactly one count and no count ever decreases, so the total is at
\* most 10000, and it is exactly 10000 when the warning is returned.
C13_RunsCountIterations == [](C13_StateOk) /\ [][C13_StepOk]_vars

\* the warning returned after runs of more than one quest
C13_Witness ==
  /\ Returned
  /\ result.warning # ""
  /\ SumRuns(result.runs) = MAX_ITERATIONS
  /\ \E a \in TierSet, b \in TierSet : a # b /\ result.runs[a] > 0 /\ result.runs[b] > 0

====
